---------------------------- MODULE Spec2Model ----------------------------
(***************************************************************************)
(* Model of bot.py, the NBA value betting bot: the rating store, the model *)
(* estimator, the Polymarket matcher, the edge classifier, the report      *)
(* builder and main.                                                       *)
(*                                                                         *)
(* Numbers.  Probabilities, prices and edges are fixed-point integers in   *)
(* units of 1/Scale (Scale = 10000, so 0.5 is 5000 and 0.07 is 700).       *)
(* Ratings and net ratings are in tenths of a point (115.2 is 1152).       *)
(* Binary floating-point rounding is not modelled.                         *)
(*                                                                         *)
(* Text.  A Python str is a sequence of one-character strings; a value     *)
(* that may or may not be a str is a record [t, s] with t = "str" for a    *)
(* str and t = "none" for None.                                            *)
(***************************************************************************)
EXTENDS Integers, Sequences, FiniteSets, TLC

\* ------------------------------------------------------------------ text

Upper == <<"A","B","C","D","E","F","G","H","I","J","K","L","M",
           "N","O","P","Q","R","S","T","U","V","W","X","Y","Z">>

LowerCase == <<"a","b","c","d","e","f","g","h","i","j","k","l","m",
               "n","o","p","q","r","s","t","u","v","w","x","y","z">>

\* str.lower() on one character.
LowerChar(c) ==
    IF \E k \in 1..26 : Upper[k] = c
    THEN LowerCase[CHOOSE k \in 1..26 : Upper[k] = c]
    ELSE c

\* str.lower()
Lower(s) == [k \in 1..Len(s) |-> LowerChar(s[k])]

\* s[lo:hi] of Python, with 0-based lo and exclusive hi, cut to the string.
Slice(s, lo, hi) ==
    LET h == IF hi > Len(s) THEN Len(s) ELSE hi
    IN  IF lo >= h THEN << >> ELSE SubSeq(s, lo + 1, h)

\* s.startswith(old, k) with 0-based k.
StartsAt(s, old, k) ==
    /\ k + Len(old) <= Len(s)
    /\ \A d \in 1..Len(old) : s[k + d] = old[d]

RECURSIVE ReplaceFrom(_, _, _, _)
\* str.replace: the occurrences of old, left to right and not overlapping,
\* from 0-based position k on.
ReplaceFrom(s, old, new, k) ==
    IF k >= Len(s) THEN << >>
    ELSE IF StartsAt(s, old, k)
         THEN new \o ReplaceFrom(s, old, new, k + Len(old))
         ELSE <<s[k + 1]>> \o ReplaceFrom(s, old, new, k + 1)

\* s.replace(old, new) for a non-empty old.
Replace(s, old, new) == ReplaceFrom(s, old, new, 0)

\* s.strip(): the blanks at both ends removed.
Strip(s) ==
    LET inked == {k \in 1..Len(s) : s[k] # " "}
    IN  IF inked = {} THEN << >>
        ELSE SubSeq(s, CHOOSE k \in inked : \A j \in inked : k <= j,
                       CHOOSE k \in inked : \A j \in inked : k >= j)

\* ------------------------------------------- fuzz.partial_ratio (difflib)

RECURSIVE CommonRun(_, _, _, _, _, _)
\* The length of the longest common run of a[i:ahi] and b[j:bhi] that starts
\* at i and j (0-based).
CommonRun(a, i, ahi, b, j, bhi) ==
    IF i < ahi /\ j < bhi /\ a[i + 1] = b[j + 1]
    THEN 1 + CommonRun(a, i + 1, ahi, b, j + 1, bhi)
    ELSE 0

\* SequenceMatcher.find_longest_match(alo, ahi, blo, bhi) without junk: the
\* longest block a[i:i+k] = b[j:j+k], the one starting earliest in a and, of
\* those, earliest in b; <<alo, blo, 0>> when nothing matches.
find_longest_match(a, alo, ahi, b, blo, bhi) ==
    LET pairs == {p \in (alo..(ahi - 1)) \X (blo..(bhi - 1)) : a[p[1] + 1] = b[p[2] + 1]}
        run(p) == CommonRun(a, p[1], ahi, b, p[2], bhi)
    IN  IF pairs = {} THEN <<alo, blo, 0>>
        ELSE LET best == CHOOSE p \in pairs :
                            \A q \in pairs :
                                \/ run(p) > run(q)
                                \/ /\ run(p) = run(q)
                                   /\ \/ p[1] < q[1]
                                      \/ p[1] = q[1] /\ p[2] <= q[2]
             IN  <<best[1], best[2], run(best)>>

RECURSIVE matching_blocks(_, _, _, _, _, _)
RECURSIVE split_around(_, _, _, _, _, _, _)
\* SequenceMatcher.get_matching_blocks(): the set of <<i, j, k>> found by
\* splitting around the longest match, without the closing sentinel.
matching_blocks(a, alo, ahi, b, blo, bhi) ==
    split_around(a, alo, ahi, b, blo, bhi,
                 find_longest_match(a, alo, ahi, b, blo, bhi))

\* The longest match m = <<i, j, k>> and the blocks to its left and right.
split_around(a, alo, ahi, b, blo, bhi, m) ==
    IF m[3] = 0 THEN {}
    ELSE {m}
         \cup (IF alo < m[1] /\ blo < m[2]
               THEN matching_blocks(a, alo, m[1], b, blo, m[2]) ELSE {})
         \cup (IF m[1] + m[3] < ahi /\ m[2] + m[3] < bhi
               THEN matching_blocks(a, m[1] + m[3], ahi, b, m[2] + m[3], bhi)
               ELSE {})

RECURSIVE SumSizes(_)
SumSizes(blocks) ==
    IF blocks = {} THEN 0
    ELSE LET m == CHOOSE x \in blocks : TRUE
         IN  m[3] + SumSizes(blocks \ {m})

\* utils.intr(100 * 2*M/T): round to the nearest integer, halves to even.
intr100(matches, total) ==
    LET n == 200 * matches
        q == n \div total
        r == n % total
    IN  IF 2 * r > total THEN q + 1
        ELSE IF 2 * r < total THEN q
        ELSE IF q % 2 = 0 THEN q ELSE q + 1

\* max(scores)
SetMax(S) == CHOOSE x \in S : \A y \in S : x >= y

\* SequenceMatcher(None, shorter, long_substr).ratio() as 0..100.
window_ratio(shorter, long_substr) ==
    intr100(SumSizes(matching_blocks(shorter, 0, Len(shorter),
                                     long_substr, 0, Len(long_substr))),
            Len(shorter) + Len(long_substr))

\* The scores of the windows of `longer` that the matching blocks, and the
\* sentinel block at the two ends, point at.
window_scores(shorter, longer) ==
    { window_ratio(shorter,
                   Slice(longer,
                         IF m[2] - m[1] > 0 THEN m[2] - m[1] ELSE 0,
                         (IF m[2] - m[1] > 0 THEN m[2] - m[1] ELSE 0) + Len(shorter))) :
        m \in matching_blocks(shorter, 0, Len(shorter), longer, 0, Len(longer))
                  \cup {<<Len(shorter), Len(longer), 0>>} }

\* fuzz.partial_ratio(s1, s2) of two str: the best SequenceMatcher ratio of
\* the shorter string against a window of the longer one, as 0..100; 0 when
\* one of them is empty.
partial_ratio(s1, s2) ==
    IF Len(s1) = 0 \/ Len(s2) = 0 THEN 0
    ELSE IF Len(s1) <= Len(s2) THEN SetMax(window_scores(s1, s2))
    ELSE SetMax(window_scores(s2, s1))

\* --------------------------------------------------------------- numbers

\* One unit of probability: 1.0 is Scale, 0.5 is Scale \div 2.
Scale == 100 * 100

\* The neutral probability 0.5 of the fallbacks.
Half == Scale \div 2

\* The neutral rating 110.0 of a team without stats, in tenths.
DEFAULT_RATING == 1100

\* The divisor of the rating difference in the logistic function.
LOGISTIC_DIVISOR == 10

\* classify_edge's thresholds 0.07 and 0.03, in units of 1/Scale.
GOOD_BET_EDGE == 700

SMALL_EDGE_EDGE == 300

\* The partial_ratio score a name must exceed.
FUZZ_THRESHOLD == 75

\* --------------------------------------------------------- get_team_stats

\* The ids of mock_stats.
KnownTeams == {14, 2, 17, 15}

\* get_team_stats(team_id): the mock table, and the neutral rating for an
\* id that is not in it.
get_team_stats(team_id) ==
    IF team_id \in KnownTeams
    THEN CASE team_id = 14 -> [off_rating |-> 1152, def_rating |-> 1087]
           [] team_id = 2  -> [off_rating |-> 1185, def_rating |-> 1102]
           [] team_id = 17 -> [off_rating |-> 1128, def_rating |-> 1091]
           [] team_id = 15 -> [off_rating |-> 1103, def_rating |-> 1078]
    ELSE [off_rating |-> DEFAULT_RATING, def_rating |-> DEFAULT_RATING]

\* ------------------------------------------------------ model_probability

RECURSIVE ExpSeries(_, _, _)
\* The terms x^k/k! of exp(x) from `term` (the k-1-th) on, for x = num/den,
\* summed until they vanish in fixed point.
ExpSeries(term, k, x) ==
    IF term = 0 THEN 0
    ELSE term + ExpSeries((term * x.num) \div (x.den * k), k + 1, x)

\* math.exp(x) for x = num/den >= 0, in units of 1/Scale.
math_exp(x) == ExpSeries(Scale, 1, x)

Max(a, b) == IF a >= b THEN a ELSE b

Min(a, b) == IF a <= b THEN a ELSE b

\* 1 / (1 + math.exp(-diff / 10)) for diff in tenths, in units of 1/Scale.
\* exp is taken of the absolute value: 1/(1+e^-x) = e^x/(e^x+1).
logistic(diff) ==
    LET E == math_exp([num |-> IF diff >= 0 THEN diff ELSE -diff,
                       den |-> 10 * LOGISTIC_DIVISOR])
    IN  IF diff >= 0 THEN (E * Scale) \div (E + Scale)
        ELSE (Scale * Scale) \div (Scale + E)

\* A variant of model_probability that adds a home advantage of 3.0 to diff.
model_probability_homeadv(home_team_id, away_team_id) ==
    LET home_stats == get_team_stats(home_team_id)
        away_stats == get_team_stats(away_team_id)
        home_net == home_stats.off_rating - home_stats.def_rating
        away_net == away_stats.off_rating - away_stats.def_rating
        diff == home_net - away_net + 30
        prob_home == Max(0, Min(Scale, logistic(diff)))
    IN  [home |-> prob_home, away |-> Scale - prob_home]

\* model_probability(home_team_id, away_team_id): the logistic function of
\* the difference of the two net ratings.  get_team_stats does not raise,
\* so the except branch (the neutral pair) is never taken.
model_probability(home_team_id, away_team_id) ==
    LET home_stats == get_team_stats(home_team_id)
        away_stats == get_team_stats(away_team_id)
        home_net == home_stats.off_rating - home_stats.def_rating
        away_net == away_stats.off_rating - away_stats.def_rating
        diff == home_net - away_net
        prob_home == Max(0, Min(Scale, logistic(diff)))
    IN  [home |-> prob_home, away |-> Scale - prob_home]

\* ---------------------------------------------------------- classify_edge

\* A variant of classify_edge whose two comparisons are strict.
classify_edge_strict(model_prob, market_prob) ==
    LET edge == model_prob - market_prob
    IN  IF edge > GOOD_BET_EDGE
        THEN [label |-> "GOOD BET", emoji |-> "bulb", edge |-> edge]
        ELSE IF edge > SMALL_EDGE_EDGE
        THEN [label |-> "SMALL EDGE", emoji |-> "chart", edge |-> edge]
        ELSE [label |-> "NO BET", emoji |-> "brick", edge |-> edge]

\* classify_edge(model_prob, market_prob): (label, emoji, edge).
classify_edge(model_prob, market_prob) ==
    LET edge == model_prob - market_prob
    IN  IF edge >= GOOD_BET_EDGE
        THEN [label |-> "GOOD BET", emoji |-> "bulb", edge |-> edge]
        ELSE IF edge >= SMALL_EDGE_EDGE
        THEN [label |-> "SMALL EDGE", emoji |-> "chart", edge |-> edge]
        ELSE [label |-> "NO BET", emoji |-> "brick", edge |-> edge]

\* --------------------------------------------------- get_polymarket_probs

\* A str value and None.
Str(s) == [t |-> "str", s |-> s]

NoneValue == [t |-> "none", s |-> << >>]

\* A price as the API may give it: a float, a str that float() converts
\* (value v), a str that it does not, the empty str, None.
Float(v) == [t |-> "float", v |-> v]

NumStr(v) == [t |-> "numstr", v |-> v]

BadStr == [t |-> "badstr", v |-> 0]

EmptyStr == [t |-> "emptystr", v |-> 0]

NonePrice == [t |-> "none", v |-> 0]

\* bool(price): a float is falsy when it is 0, a str when it is empty.
Truthy(price) ==
    CASE price.t = "float" -> price.v # 0
      [] price.t = "numstr" -> TRUE
      [] price.t = "badstr" -> TRUE
      [] OTHER -> FALSE

\* The results of the body of the try statement: a returned pair, the fall
\* out of the loop, or a raised exception.  home_outcome_idx and
\* away_outcome_idx are the 0-based indices of the returning market (-1
\* otherwise) and market is its 1-based position in the data (0 otherwise).
Found(home_prob, away_prob, h, a, k) ==
    [path |-> "found", raised |-> FALSE, home |-> home_prob, away |-> away_prob,
     home_outcome_idx |-> h, away_outcome_idx |-> a, market |-> k]

NoMarket ==
    [path |-> "nomarket", raised |-> FALSE, home |-> Half, away |-> Half,
     home_outcome_idx |-> -1, away_outcome_idx |-> -1, market |-> 0]

Raised ==
    [path |-> "raised", raised |-> TRUE, home |-> 0, away |-> 0,
     home_outcome_idx |-> -1, away_outcome_idx |-> -1, market |-> 0]

\* The except branch: the neutral pair.
Caught ==
    [path |-> "except", raised |-> FALSE, home |-> Half, away |-> Half,
     home_outcome_idx |-> -1, away_outcome_idx |-> -1, market |-> 0]

\* home_variations / away_variations
name_variations(team) ==
    << Lower(team),
       Lower(Replace(team, <<" ">>, << >>)),
       Lower(Replace(team, <<" ">>, <<"-">>)),
       Lower(Replace(team, <<" ">>, <<"_">>)) >>

\* title_clean of a str question.
title_clean(question) ==
    Strip(Replace(Replace(Lower(question),
                          <<"w","i","l","l"," ","t","h","e">>, << >>),
                  <<"w","i","n"," ","v","s">>, <<"v","s">>))

\* A variant of the threshold test that lets a score of exactly 75 pass.
crosses_ge(score) == score >= FUZZ_THRESHOLD

\* score > 75
crosses(score) == score > FUZZ_THRESHOLD

\* home_found / away_found
name_found(team, title) ==
    \E n \in 1..4 : crosses(partial_ratio(name_variations(team)[n], title))

\* The if branch of the loop over the outcomes: the home index after the
\* outcome at index i.
home_idx_after(home_team, outcome_text, i, h) ==
    IF crosses(partial_ratio(Lower(home_team), outcome_text)) THEN i ELSE h

\* The elif branch: the away index after the outcome at index i.
away_idx_after(home_team, away_team, outcome_text, i, a) ==
    IF /\ ~crosses(partial_ratio(Lower(home_team), outcome_text))
       /\ crosses(partial_ratio(Lower(away_team), outcome_text))
    THEN i ELSE a

\* A variant of the loop over the outcomes that keeps the first index of
\* each side, as a loop with `if home_outcome_idx == -1` guards would.
RECURSIVE outcome_loop_first(_, _, _, _, _, _)
outcome_loop_first(home_team, away_team, outcomes, i, h, a) ==
    IF i >= Len(outcomes) THEN [raised |-> FALSE, h |-> h, a |-> a]
    ELSE IF outcomes[i + 1].t # "str" THEN [raised |-> TRUE, h |-> h, a |-> a]
    ELSE outcome_loop_first(
             home_team, away_team, outcomes, i + 1,
             IF h = -1
             THEN home_idx_after(home_team, Lower(outcomes[i + 1].s), i, h) ELSE h,
             IF a = -1
             THEN away_idx_after(home_team, away_team, Lower(outcomes[i + 1].s), i, a)
             ELSE a)

RECURSIVE outcome_loop(_, _, _, _, _, _)
\* for i, outcome in enumerate(outcomes), from index i on with the indices
\* h and a assigned so far; raised when outcome.lower() fails on a value
\* that is no str.
outcome_loop(home_team, away_team, outcomes, i, h, a) ==
    IF i >= Len(outcomes) THEN [raised |-> FALSE, h |-> h, a |-> a]
    ELSE IF outcomes[i + 1].t # "str" THEN [raised |-> TRUE, h |-> h, a |-> a]
    ELSE outcome_loop(
             home_team, away_team, outcomes, i + 1,
             home_idx_after(home_team, Lower(outcomes[i + 1].s), i, h),
             away_idx_after(home_team, away_team, Lower(outcomes[i + 1].s), i, a))

\* A variant of price_at without the `else 0.5`: a falsy price counts as 0.
price_at_zero(prices, idx) ==
    IF idx >= Len(prices) THEN [raised |-> TRUE, v |-> 0]
    ELSE LET price == prices[idx + 1]
         IN  IF Truthy(price)
             THEN IF price.t = "badstr" THEN [raised |-> TRUE, v |-> 0]
                  ELSE [raised |-> FALSE, v |-> price.v]
             ELSE [raised |-> FALSE, v |-> 0]

\* float(prices[idx]) if prices[idx] else 0.5, for idx >= 0: IndexError
\* beyond the list, ValueError on a str that is no number.
price_at(prices, idx) ==
    IF idx >= Len(prices) THEN [raised |-> TRUE, v |-> 0]
    ELSE LET price == prices[idx + 1]
         IN  IF Truthy(price)
             THEN IF price.t = "badstr" THEN [raised |-> TRUE, v |-> 0]
                  ELSE [raised |-> FALSE, v |-> price.v]
             ELSE [raised |-> FALSE, v |-> Half]

\* The market is passed over: the loop goes on with the next one.
Skip ==
    [path |-> "skip", raised |-> FALSE, home |-> 0, away |-> 0,
     home_outcome_idx |-> -1, away_outcome_idx |-> -1, market |-> 0]

\* return home_prob, away_prob, unless one of the two conversions raised.
return_probs(home_prob, away_prob, idx, k) ==
    IF home_prob.raised \/ away_prob.raised THEN Raised
    ELSE Found(home_prob.v, away_prob.v, idx.h, idx.a, k)

\* A variant of resolve_outcomes that ends the scan with the neutral pair at
\* a candidate in which a side is not resolved.
resolve_outcomes_or_stop(prices, idx, k) ==
    IF idx.raised THEN Raised
    ELSE IF idx.h # -1 /\ idx.a # -1
    THEN return_probs(price_at(prices, idx.h), price_at(prices, idx.a), idx, k)
    ELSE NoMarket

\* After the loop over the outcomes ended with the indices idx: the prices
\* when both indices are set, the next market otherwise.
resolve_outcomes(prices, idx, k) ==
    IF idx.raised THEN Raised
    ELSE IF idx.h # -1 /\ idx.a # -1
    THEN return_probs(price_at(prices, idx.h), price_at(prices, idx.a), idx, k)
    ELSE Skip

\* if home_found and away_found, for the cleaned title of the market.
is_candidate(home_team, away_team, title) ==
    name_found(home_team, title) /\ name_found(away_team, title)

\* The body of the loop over the markets for the k-th market: it returns
\* the two prices, raises, or falls through to the next market.
scan_market(home_team, away_team, market, k) ==
    IF ~market.has_question THEN Skip
    ELSE IF market.question.t # "str" THEN Raised
    ELSE IF is_candidate(home_team, away_team, title_clean(market.question.s))
    THEN IF Len(market.outcomes) >= 2 /\ Len(market.prices) >= 2
         THEN resolve_outcomes(market.prices,
                               outcome_loop(home_team, away_team,
                                            market.outcomes, 0, -1, -1),
                               k)
         ELSE Skip
    ELSE Skip

RECURSIVE market_loop(_, _, _, _)
RECURSIVE next_market(_, _, _, _, _)
\* for market in markets.get('data', []), from the k-th market on, and the
\* neutral pair after the loop.
market_loop(home_team, away_team, data, k) ==
    IF k > Len(data) THEN NoMarket
    ELSE next_market(home_team, away_team, data, k,
                     scan_market(home_team, away_team, data[k], k))

\* The k-th market gave r: the loop ends with it or goes on.
next_market(home_team, away_team, data, k, r) ==
    IF r.path = "skip"
    THEN market_loop(home_team, away_team, data, k + 1)
    ELSE r

\* The body of the try statement: the fetch (response.ok is FALSE when
\* requests.get, raise_for_status or json() raises) and the scan.
try_body(home_team, away_team, response) ==
    IF ~response.ok THEN Raised
    ELSE market_loop(home_team, away_team, response.data, 1)

\* except Exception: the neutral pair.
except_clause(r) == IF r.raised THEN Caught ELSE r

\* A variant of get_polymarket_probs without the except clause.
get_polymarket_probs_uncaught(home_team, away_team, response) ==
    try_body(home_team, away_team, response)

\* get_polymarket_probs(home_team, away_team), with the response of the
\* Polymarket request as a parameter: what the try body returns, and the
\* neutral pair of the except clause when it raises.
get_polymarket_probs(home_team, away_team, response) ==
    except_clause(try_body(home_team, away_team, response))

\* ----------------------------------------------------------- build_report

\* One line of the report: its kind, the emoji or label it shows, the team
\* names and the two numbers it prints (0 and << >> where it has none).
Line(kind, tag, home, away, p, q) ==
    [kind |-> kind, tag |-> tag, home |-> home, away |-> away, p |-> p, q |-> q]

\* The three lines before the games: title, date, blank.
report_header ==
    << Line("title", "", << >>, << >>, 0, 0),
       Line("date", "", << >>, << >>, 0, 0),
       Line("blank", "", << >>, << >>, 0, 0) >>

\* format(x, ".1%"): x in units of 1/Scale as tenths of a percent, rounded
\* to the nearest, halves to even.
Pct1(x) ==
    LET q == x \div 10
        r == x % 10
    IN  IF r > 5 THEN q + 1
        ELSE IF r < 5 THEN q
        ELSE IF q % 2 = 0 THEN q ELSE q + 1

\* The keys build_report reads from a game, in the order it reads them.
GameKeys == << "home_team", "away_team", "home_team_id", "away_team_id" >>

\* The key whose lookup raises KeyError, "" when the game has all four.
missing_key(game) ==
    IF \A n \in 1..4 : GameKeys[n] \in game.keys THEN ""
    ELSE GameKeys[CHOOSE n \in 1..4 :
                      /\ GameKeys[n] \notin game.keys
                      /\ \A m \in 1..(n - 1) : GameKeys[m] \in game.keys]

\* The six report.append calls of one pass of the loop.
block_lines(game, pm, model, edge, home_stats, away_stats) ==
    << Line("head", edge.emoji, game.home_team, game.away_team, 0, 0),
       Line("market", "", << >>, << >>, Pct1(pm.home), Pct1(pm.away)),
       Line("model", "", << >>, << >>, Pct1(model.home), Pct1(model.away)),
       Line("edge", edge.label, << >>, << >>, Pct1(edge.edge), 0),
       Line("reason", "", game.home_team, game.away_team,
            home_stats.off_rating - home_stats.def_rating,
            away_stats.off_rating - away_stats.def_rating),
       Line("blank", "", << >>, << >>, 0, 0) >>

\* The lines of a game from its market and model probabilities: the edge
\* is classified for the home team.
edge_of_game(game, pm, model) ==
    block_lines(game, pm, model, classify_edge(model.home, pm.home),
                get_team_stats(game.home_team_id),
                get_team_stats(game.away_team_id))

\* The six lines one pass of the loop appends for a game that has its four
\* keys, given the response its Polymarket request gets.
game_block(game, response) ==
    edge_of_game(game,
                 get_polymarket_probs(game.home_team, game.away_team, response),
                 model_probability(game.home_team_id, game.away_team_id))

\* The texts main hands to send_telegram_message.
NoGamesMessage == [kind |-> "nogames", lines |-> << >>, key |-> ""]

ReportMessage(lines) == [kind |-> "report", lines |-> lines, key |-> ""]

ErrorMessage(key) == [kind |-> "error", lines |-> << >>, key |-> key]

\* ----------------------------------------------------------------- inputs

\* The bounds of the inputs.
MaxQuotes == 2

MaxGames == 2

MaxTeamId == 23

MaxEdge == 1000

\* Team names.
LA_L == <<"L","A"," ","L">>

BOS == <<"B","O","S">>

NY_K == <<"N","Y"," ","K">>

MIA == <<"M","I","A">>

\* Polymarket markets: a plain one; one whose title matches only a name
\* variant and whose labels do not match the raw name; one that names the
\* home team twice; one with a label naming both teams; another game's; one
\* whose title, and one whose label, is no str; one with a falsy price; one
\* with a price that is no number; one with more labels than prices; one
\* without a question; a yes/no market; one with a single outcome; one whose
\* title scores exactly 75; one whose prices are None and the empty str.
M_plain ==
    [has_question |-> TRUE,
     question |-> Str(<<"W","i","l","l"," ","t","h","e"," ","L","A"," ","L"," ","w","i","n"," ","v","s"," ","B","O","S">>),
     outcomes |-> <<Str(<<"L","A"," ","L">>), Str(<<"B","O","S">>)>>,
     prices |-> <<Float(6000), Float(4000)>>]

M_hyphen ==
    [has_question |-> TRUE,
     question |-> Str(<<"l","a","-","l"," ","v","s"," ","b","o","s">>),
     outcomes |-> <<Str(<<"l","a","-","l">>), Str(<<"b","o","s">>)>>,
     prices |-> <<Float(7000), Float(3000)>>]

M_repeat ==
    [has_question |-> TRUE,
     question |-> Str(<<"L","A"," ","L"," ","v","s"," ","B","O","S">>),
     outcomes |-> <<Str(<<"L","A"," ","L">>), Str(<<"B","O","S">>), Str(<<"L","A"," ","L">>)>>,
     prices |-> <<Float(5500), Float(4000), Float(7000)>>]

M_both ==
    [has_question |-> TRUE,
     question |-> Str(<<"L","A"," ","L"," ","v","s"," ","B","O","S">>),
     outcomes |-> <<Str(<<"L","A"," ","L"," ","o","r"," ","B","O","S">>), Str(<<"B","O","S">>)>>,
     prices |-> <<Float(3000), NumStr(4500)>>]

M_other ==
    [has_question |-> TRUE,
     question |-> Str(<<"N","Y"," ","K"," ","v","s"," ","M","I","A">>),
     outcomes |-> <<Str(<<"N","Y"," ","K">>), Str(<<"M","I","A">>)>>,
     prices |-> <<Float(5200), Float(4800)>>]

M_notitle ==
    [has_question |-> TRUE,
     question |-> NoneValue,
     outcomes |-> <<Str(<<"L","A"," ","L">>), Str(<<"B","O","S">>)>>,
     prices |-> <<Float(6000), Float(4000)>>]

M_nolabel ==
    [has_question |-> TRUE,
     question |-> Str(<<"L","A"," ","L"," ","v","s"," ","B","O","S">>),
     outcomes |-> <<Str(<<"L","A"," ","L">>), NoneValue>>,
     prices |-> <<Float(6000), Float(4000)>>]

M_falsy ==
    [has_question |-> TRUE,
     question |-> Str(<<"L","A"," ","L"," ","v","s"," ","B","O","S">>),
     outcomes |-> <<Str(<<"B","O","S">>), Str(<<"L","A"," ","L">>)>>,
     prices |-> <<Float(0), NumStr(4500)>>]

M_badprice ==
    [has_question |-> TRUE,
     question |-> Str(<<"L","A"," ","L"," ","v","s"," ","B","O","S">>),
     outcomes |-> <<Str(<<"L","A"," ","L">>), Str(<<"B","O","S">>)>>,
     prices |-> <<BadStr, Float(4000)>>]

M_short ==
    [has_question |-> TRUE,
     question |-> Str(<<"L","A"," ","L"," ","v","s"," ","B","O","S">>),
     outcomes |-> <<Str(<<"L","A"," ","L">>), Str(<<"B","O","S">>), Str(<<"B","O","S">>)>>,
     prices |-> <<Float(6000), Float(4000)>>]

M_nokey ==
    [has_question |-> FALSE,
     question |-> NoneValue,
     outcomes |-> <<Str(<<"L","A"," ","L">>), Str(<<"B","O","S">>)>>,
     prices |-> <<Float(6000), Float(4000)>>]

M_yesno ==
    [has_question |-> TRUE,
     question |-> Str(<<"W","i","l","l"," ","t","h","e"," ","L","A"," ","L"," ","w","i","n"," ","v","s"," ","B","O","S">>),
     outcomes |-> <<Str(<<"Y","e","s">>), Str(<<"N","o">>)>>,
     prices |-> <<Float(6000), Float(4000)>>]

M_single ==
    [has_question |-> TRUE,
     question |-> Str(<<"L","A"," ","L"," ","v","s"," ","B","O","S">>),
     outcomes |-> <<Str(<<"L","A"," ","L">>)>>,
     prices |-> <<Float(6000)>>]

M_dot ==
    [has_question |-> TRUE,
     question |-> Str(<<"L","A",".","L"," ","v","s"," ","B","O","S">>),
     outcomes |-> <<Str(<<"L","A"," ","L">>), Str(<<"B","O","S">>)>>,
     prices |-> <<Float(6500), Float(3500)>>]

M_none ==
    [has_question |-> TRUE,
     question |-> Str(<<"B","O","S"," ","v","s"," ","L","A"," ","L">>),
     outcomes |-> <<Str(<<"L","A"," ","L">>), Str(<<"B","O","S">>)>>,
     prices |-> <<NonePrice, EmptyStr>>]

Markets ==
    {M_plain, M_hyphen, M_repeat, M_both, M_other, M_notitle, M_nolabel, M_falsy, M_badprice, M_short, M_nokey, M_yesno, M_single, M_dot, M_none}

RECURSIVE SeqsUpTo(_, _)
\* The sequences over S of length at most n.
SeqsUpTo(S, n) ==
    IF n = 0 THEN {<< >>}
    ELSE LET shorter == SeqsUpTo(S, n - 1)
         IN  shorter \cup {Append(q, x) : q \in {r \in shorter : Len(r) = n - 1}, x \in S}

\* What the Polymarket request can give: a failure, or a list of markets.
FetchFailure == [ok |-> FALSE, data |-> << >>]

Responses ==
    {FetchFailure} \cup {[ok |-> TRUE, data |-> d] : d \in SeqsUpTo(Markets, MaxQuotes)}

\* The (home, away) names the matcher is asked about.
NamePairs == {<<LA_L, BOS>>, <<BOS, LA_L>>}

\* Games as the listing gives them: keys is the set of keys the record has.
AllKeys == {"home_team", "away_team", "home_team_id", "away_team_id"}

G_lal_bos ==
    [keys |-> AllKeys, home_team |-> LA_L, away_team |-> BOS,
     home_team_id |-> 14, away_team_id |-> 2]

G_nyk_mia ==
    [keys |-> AllKeys, home_team |-> NY_K, away_team |-> MIA,
     home_team_id |-> 17, away_team_id |-> 15]

G_bos_lal ==
    [keys |-> AllKeys, home_team |-> BOS, away_team |-> LA_L,
     home_team_id |-> 11, away_team_id |-> 23]

G_nokey ==
    [keys |-> AllKeys \ {"home_team_id"}, home_team |-> LA_L, away_team |-> BOS,
     home_team_id |-> 14, away_team_id |-> 2]

Games == {G_lal_bos, G_nyk_mia, G_bos_lal, G_nokey}

GameLists == SeqsUpTo(Games, MaxGames)

\* The responses the requests of a run of main get.
MainResponses ==
    { FetchFailure,
      [ok |-> TRUE, data |-> <<M_plain>>],
      [ok |-> TRUE, data |-> <<M_hyphen, M_repeat>>],
      [ok |-> TRUE, data |-> <<M_other, M_notitle>>] }

\* ------------------------------------------------------------------ state

VARIABLES
    pc,           \* where the run is: "call"/"ret" around one function call,
                  \* "main", "build", "send", "done" in a run of main
    inp,          \* the arguments of the function call
    out,          \* what the function call returned
    games,        \* main: the list get_today_games returned
    gi,           \* build_report: the 1-based position of the next game
    report,       \* build_report: the lines appended so far
    fetched,      \* build_report: the Polymarket response each game got
    message,      \* main: the text to hand to send_telegram_message
    sent,         \* the calls of send_telegram_message: text and result
    build_calls,  \* how many times build_report was called
    handler,      \* main: inside its except clause
    raised        \* an exception left main

vars == << pc, inp, out, games, gi, report, fetched, message, sent,
           build_calls, handler, raised >>

mainVars == << games, gi, report, fetched, message, sent, build_calls,
               handler, raised >>

\* main before its first statement.
MainIdle ==
    /\ games = << >>
    /\ gi = 1
    /\ report = << >>
    /\ fetched = << >>
    /\ message = NoGamesMessage
    /\ sent = << >>
    /\ build_calls = 0
    /\ handler = FALSE
    /\ raised = FALSE

\* ----------------------------------------------- one call of classify_edge

InitClassify ==
    /\ pc = "call"
    /\ inp \in {[model_prob |-> k * (Scale \div 4) + e, market_prob |-> k * (Scale \div 4)] :
                    k \in 0..4, e \in (-MaxEdge)..MaxEdge}
    /\ out = [label |-> "", emoji |-> "", edge |-> 0]
    /\ MainIdle

CallClassify ==
    /\ pc = "call"
    /\ out' = classify_edge(inp.model_prob, inp.market_prob)
    /\ pc' = "ret"
    /\ UNCHANGED << inp, mainVars >>

SpecClassify == InitClassify /\ [][CallClassify]_vars

\* ------------------------------------------- one call of model_probability

InitModel ==
    /\ pc = "call"
    /\ inp \in [home_team_id : 0..MaxTeamId, away_team_id : 0..MaxTeamId]
    /\ out = [home |-> 0, away |-> 0]
    /\ MainIdle

CallModel ==
    /\ pc = "call"
    /\ out' = model_probability(inp.home_team_id, inp.away_team_id)
    /\ pc' = "ret"
    /\ UNCHANGED << inp, mainVars >>

SpecModel == InitModel /\ [][CallModel]_vars

\* ---------------------------------------- one call of get_polymarket_probs

InitMatch ==
    /\ pc = "call"
    /\ inp \in {[home_team |-> n[1], away_team |-> n[2], response |-> r] :
                    n \in NamePairs, r \in Responses}
    /\ out = Skip
    /\ MainIdle

CallMatch ==
    /\ pc = "call"
    /\ out' = get_polymarket_probs(inp.home_team, inp.away_team, inp.response)
    /\ pc' = "ret"
    /\ UNCHANGED << inp, mainVars >>

SpecMatch == InitMatch /\ [][CallMatch]_vars

\* ------------------------------------------------------------------- main

Init ==
    /\ pc = "main"
    /\ inp = 0
    /\ out = 0
    /\ MainIdle

\* A variant of main without the `if not games` branch.
main_get_games_unchecked(gs) ==
    /\ pc = "main"
    /\ games' = gs
    /\ pc' = "build"
    /\ build_calls' = build_calls + 1
    /\ report' = report_header
    /\ UNCHANGED << inp, out, gi, fetched, message, sent, handler, raised >>

\* games = get_today_games(), "if not games" and, with games, the call of
\* build_report up to its loop.  get_today_games stands for the listing
\* API: it returns the list gs, which is empty in its except branch.
main_get_games(gs) ==
    /\ pc = "main"
    /\ games' = gs
    /\ IF gs = << >>
       THEN /\ message' = NoGamesMessage
            /\ pc' = "send"
            /\ UNCHANGED << build_calls, report >>
       ELSE /\ pc' = "build"
            /\ build_calls' = build_calls + 1
            /\ report' = report_header
            /\ UNCHANGED message
    /\ UNCHANGED << inp, out, gi, fetched, sent, handler, raised >>

\* A variant of the pass that inserts the block of the game before the
\* blocks of the games done so far.
build_game_prepend(response) ==
    /\ pc = "build"
    /\ gi <= Len(games)
    /\ IF missing_key(games[gi]) # ""
       THEN /\ message' = ErrorMessage(missing_key(games[gi]))
            /\ handler' = TRUE
            /\ pc' = "send"
            /\ UNCHANGED << gi, report, fetched >>
       ELSE /\ report' = SubSeq(report, 1, 3) \o game_block(games[gi], response)
                             \o SubSeq(report, 4, Len(report))
            /\ fetched' = Append(fetched, response)
            /\ gi' = gi + 1
            /\ UNCHANGED << message, handler, pc >>
    /\ UNCHANGED << inp, out, games, sent, build_calls, raised >>

\* One pass of build_report's loop, the Polymarket request answered by
\* response.  A game without one of its keys raises KeyError, which leaves
\* build_report and reaches main's except clause.
build_game(response) ==
    /\ pc = "build"
    /\ gi <= Len(games)
    /\ IF missing_key(games[gi]) # ""
       THEN /\ message' = ErrorMessage(missing_key(games[gi]))
            /\ handler' = TRUE
            /\ pc' = "send"
            /\ UNCHANGED << gi, report, fetched >>
       ELSE /\ report' = report \o game_block(games[gi], response)
            /\ fetched' = Append(fetched, response)
            /\ gi' = gi + 1
            /\ UNCHANGED << message, handler, pc >>
    /\ UNCHANGED << inp, out, games, sent, build_calls, raised >>

\* return "\n".join(report), back in main.
build_return ==
    /\ pc = "build"
    /\ gi > Len(games)
    /\ message' = ReportMessage(report)
    /\ pc' = "send"
    /\ UNCHANGED << inp, out, games, gi, report, fetched, sent, build_calls,
                    handler, raised >>

\* A variant of send_telegram_message without its try statement: a failed
\* post raises into main, whose except clause calls it again.
send_telegram_message_raising(ok) ==
    /\ pc = "send"
    /\ sent' = Append(sent, [message |-> message, result |-> ok])
    /\ IF ok
       THEN pc' = "done" /\ UNCHANGED << message, handler, raised >>
       ELSE IF ~handler
            THEN /\ message' = ErrorMessage("send")
                 /\ handler' = TRUE
                 /\ UNCHANGED << pc, raised >>
            ELSE /\ raised' = TRUE
                 /\ pc' = "done"
                 /\ UNCHANGED << message, handler >>
    /\ UNCHANGED << inp, out, games, gi, report, fetched, build_calls >>

\* send_telegram_message(message), the post succeeding (ok) or raising: it
\* returns ok, and main ends after each of its three calls.
send_telegram_message(ok) ==
    /\ pc = "send"
    /\ sent' = Append(sent, [message |-> message, result |-> ok])
    /\ pc' = "done"
    /\ UNCHANGED << inp, out, games, gi, report, fetched, message, build_calls,
                    handler, raised >>

Next ==
    \/ \E gs \in GameLists : main_get_games(gs)
    \/ \E response \in MainResponses : build_game(response)
    \/ build_return
    \/ \E ok \in BOOLEAN : send_telegram_message(ok)

Spec == Init /\ [][Next]_vars

\* main runs to its end: no step of it waits for anything.
FairSpec == Spec /\ WF_vars(Next)

\* ------------------------------------------------- properties: the edge

\* C1: classify_edge returns edge = model_prob - market_prob, not clamped,
\* and the label is GOOD BET exactly when edge >= 0.07, SMALL EDGE exactly
\* when 0.03 <= edge < 0.07 and NO BET exactly when edge < 0.03: one of the
\* three labels for every input, both lower bounds included.
C1_ClassifyEdge ==
    pc = "ret" =>
        LET edge == inp.model_prob - inp.market_prob
            good == (7 * Scale) \div 100
            small == (3 * Scale) \div 100
        IN  /\ out.edge = edge
            /\ out.label \in {"GOOD BET", "SMALL EDGE", "NO BET"}
            /\ (out.label = "GOOD BET") <=> (edge >= good)
            /\ (out.label = "SMALL EDGE") <=> (edge >= small /\ edge < good)
            /\ (out.label = "NO BET") <=> (edge < small)

\* An edge of exactly 0.07 was classified, as GOOD BET.
C1_Witness ==
    /\ pc = "ret"
    /\ inp.model_prob - inp.market_prob = (7 * Scale) \div 100
    /\ out.label = "GOOD BET"

\* The net rating the claims speak of: offensive minus defensive rating of
\* the rating the store gives for the id.
NetRating(team_id) ==
    get_team_stats(team_id).off_rating - get_team_stats(team_id).def_rating

\* C7: whenever the two net ratings are equal, model_probability returns
\* (0.5, 0.5) exactly; two ids the rating store does not know both get
\* 110.0/110.0, of net 0, and so the neutral pair.
C7_EqualNetsNeutral ==
    pc = "ret" =>
        /\ NetRating(inp.home_team_id) = NetRating(inp.away_team_id)
              => out = [home |-> Scale \div 2, away |-> Scale \div 2]
        /\ \A id \in {inp.home_team_id, inp.away_team_id} \ {14, 2, 17, 15} :
              get_team_stats(id) = [off_rating |-> 1100, def_rating |-> 1100]
        /\ {inp.home_team_id, inp.away_team_id} \cap {14, 2, 17, 15} = {}
              => out = [home |-> Scale \div 2, away |-> Scale \div 2]

\* Two different unknown ids were estimated.
C7_Witness ==
    /\ pc = "ret"
    /\ inp.home_team_id = 11
    /\ inp.away_team_id = 23
    /\ out.home = Scale \div 2

\* ---------------------------------------------- properties: the matcher

\* The label fuzzy-matches the raw team name above 75.
LabelMatches(team, label) ==
    /\ label.t = "str"
    /\ partial_ratio(Lower(team), Lower(label.s)) > 75

\* The market has a str title that, normalized, matches a variant of the
\* name above 75.
TitleMatches(team, market) ==
    /\ market.has_question
    /\ market.question.t = "str"
    /\ \E n \in 1..4 :
          partial_ratio(name_variations(team)[n], title_clean(market.question.s)) > 75

\* A candidate quote: its title matches both teams.
Candidate(home, away, market) ==
    TitleMatches(home, market) /\ TitleMatches(away, market)

\* The largest and the smallest element of a set of indices, -1 if empty.
LastOf(S) == IF S = {} THEN -1 ELSE CHOOSE x \in S : \A y \in S : x >= y

FirstOf(S) == IF S = {} THEN -1 ELSE CHOOSE x \in S : \A y \in S : x <= y

\* The 0-based indices of the labels that match a team.
MatchingIdx(team, outcomes) ==
    {i \in 0..(Len(outcomes) - 1) : LabelMatches(team, outcomes[i + 1])}

\* The indices the loop over the outcomes ends with: the last label that
\* matches the home name; the last label that matches the away name and
\* not the home name.
HomeIdx(home, away, outcomes) == LastOf(MatchingIdx(home, outcomes))

AwayIdx(home, away, outcomes) ==
    LastOf(MatchingIdx(away, outcomes) \ MatchingIdx(home, outcomes))

\* The price at the index, a falsy one (0, the empty str, None) as 0.5.
PriceOrHalf(prices, i) ==
    LET price == prices[i + 1]
    IN  IF \/ price.t \in {"none", "emptystr"}
           \/ price.t = "float" /\ price.v = 0
        THEN Scale \div 2
        ELSE price.v

\* Reading the price at the index raises: no such index, or no number.
PriceRaises(prices, i) == i >= Len(prices) \/ prices[i + 1].t = "badstr"

\* The candidate has two outcomes and prices or more and a label for each
\* side.
BothResolved(home, away, market) ==
    /\ Candidate(home, away, market)
    /\ Len(market.outcomes) >= 2
    /\ Len(market.prices) >= 2
    /\ HomeIdx(home, away, market.outcomes) # -1
    /\ AwayIdx(home, away, market.outcomes) # -1

\* Scanning the market raises: a title or a label that is no str, a price
\* at a resolved index that is missing or is no number.
RaisesAt(home, away, market) ==
    /\ market.has_question
    /\ \/ market.question.t # "str"
       \/ /\ Candidate(home, away, market)
          /\ Len(market.outcomes) >= 2
          /\ Len(market.prices) >= 2
          /\ \/ \E i \in 1..Len(market.outcomes) : market.outcomes[i].t # "str"
             \/ /\ BothResolved(home, away, market)
                /\ \/ PriceRaises(market.prices, HomeIdx(home, away, market.outcomes))
                   \/ PriceRaises(market.prices, AwayIdx(home, away, market.outcomes))

\* What the properties below use of each market of the input universe for each pair
\* of names, tabulated once: is it a candidate, does the scan raise at it,
\* do both sides resolve in it.
MarketFacts ==
    [n \in NamePairs |->
        [m \in Markets |->
            [candidate |-> Candidate(n[1], n[2], m),
             raises |-> RaisesAt(n[1], n[2], m),
             resolved |-> BothResolved(n[1], n[2], m)]]]

IsCandidate(home, away, market) == MarketFacts[<<home, away>>][market].candidate

Raises(home, away, market) == MarketFacts[<<home, away>>][market].raises

\* The scan ends at the market: it raises there or both sides resolve.
Decisive(home, away, market) ==
    \/ MarketFacts[<<home, away>>][market].raises
    \/ MarketFacts[<<home, away>>][market].resolved

\* The 1-based position of the first decisive market, 0 if there is none.
FirstDecisive(home, away, data) ==
    IF \E k \in 1..Len(data) : Decisive(home, away, data[k])
    THEN FirstOf({k \in 1..Len(data) : Decisive(home, away, data[k])})
    ELSE 0

\* The 1-based position of the first candidate quote, 0 if there is none.
FirstCandidate(home, away, data) ==
    IF \E k \in 1..Len(data) : IsCandidate(home, away, data[k])
    THEN FirstOf({k \in 1..Len(data) : IsCandidate(home, away, data[k])})
    ELSE 0

\* The call failed: the fetch, or the scan at its first decisive market.
CallFails(home, away, response) ==
    \/ ~response.ok
    \/ /\ FirstDecisive(home, away, response.data) # 0
       /\ Raises(home, away,
                 response.data[FirstDecisive(home, away, response.data)])

NeutralPair(r) == r.home = Scale \div 2 /\ r.away = Scale \div 2

C4_NoCandidateNeutral ==
    pc = "ret" /\ inp.response.ok
               /\ FirstCandidate(inp.home_team, inp.away_team, inp.response.data) = 0
        => NeutralPair(out) /\ out.path # "found"

\* Two quotes with str titles, neither a candidate, one of them with a
\* title that scores exactly 75 for a name: the neutral pair after the loop.
C4_Witness ==
    /\ pc = "ret"
    /\ inp.response.ok
    /\ Len(inp.response.data) = 2
    /\ \A k \in 1..2 : /\ inp.response.data[k].has_question
                       /\ inp.response.data[k].question.t = "str"
                       /\ ~Candidate(inp.home_team, inp.away_team, inp.response.data[k])
    /\ \E k \in 1..2 : \E n \in 1..4 :
          partial_ratio(name_variations(LA_L)[n],
                        title_clean(inp.response.data[k].question.s)) = 75
    /\ out.path = "nomarket"
    /\ NeutralPair(out)

\* C5: no exception leaves the call: a failed fetch, and a scan that raises
\* (a title or label that is no str, a price that is no number, a resolved
\* index beyond the prices), end it with the neutral pair.
C5_NeverRaises ==
    pc = "ret" =>
        /\ ~out.raised
        /\ out.path \in {"found", "nomarket", "except"}
        /\ CallFails(inp.home_team, inp.away_team, inp.response)
              => out.path = "except" /\ NeutralPair(out)

\* The scan raised on a resolved index beyond the end of the prices.
C5_Witness ==
    /\ pc = "ret"
    /\ inp.response.ok
    /\ FirstDecisive(inp.home_team, inp.away_team, inp.response.data) = 2
    /\ LET market == inp.response.data[2]
       IN  /\ BothResolved(inp.home_team, inp.away_team, market)
           /\ AwayIdx(inp.home_team, inp.away_team, market.outcomes)
                 >= Len(market.prices)
    /\ out.path = "except"
    /\ NeutralPair(out)

\* C6: when the call returns from a quote, both sides resolved, each
\* probability is the price at that side's index, a falsy price (0, the
\* empty str, None) replaced by 0.5 for that side alone.
C6_PricesAtIndices ==
    pc = "ret" /\ out.path = "found" =>
        LET prices == inp.response.data[out.market].prices
        IN  /\ out.home_outcome_idx \in 0..(Len(prices) - 1)
            /\ out.away_outcome_idx \in 0..(Len(prices) - 1)
            /\ out.home = PriceOrHalf(prices, out.home_outcome_idx)
            /\ out.away = PriceOrHalf(prices, out.away_outcome_idx)

\* One side's price was falsy and became 0.5, the other side's price was
\* returned as it is.
C6_Witness ==
    /\ pc = "ret"
    /\ out.path = "found"
    /\ LET prices == inp.response.data[out.market].prices
       IN  /\ prices[out.away_outcome_idx + 1] = Float(0)
           /\ out.away = Scale \div 2
           /\ prices[out.home_outcome_idx + 1] = NumStr(4500)
           /\ out.home = 4500

\* ----------------------------------------------- properties: the report

\* C8: when the list of games is empty, build_report is not called in the
\* run and the text handed to send_telegram_message is the "no games"
\* message, not a report made of the header alone.
C8_NoGamesBypass ==
    pc # "main" /\ games = << >> =>
        /\ build_calls = 0
        /\ report = << >>
        /\ message.kind = "nogames"
        /\ \A k \in 1..Len(sent) : sent[k].message.kind = "nogames"
        /\ pc = "done" => Len(sent) = 1

\* A run with no games ended after handing over the "no games" message.
C8_Witness ==
    /\ pc = "done"
    /\ games = << >>
    /\ Len(sent) = 1
    /\ sent[1].message = NoGamesMessage

\* The label and the marker of an edge, as the report shows them.
LabelOf(edge) ==
    IF edge >= (7 * Scale) \div 100 THEN "GOOD BET"
    ELSE IF edge >= (3 * Scale) \div 100 THEN "SMALL EDGE"
    ELSE "NO BET"

MarkerOf(edge) ==
    IF edge >= (7 * Scale) \div 100 THEN "bulb"
    ELSE IF edge >= (3 * Scale) \div 100 THEN "chart"
    ELSE "brick"

\* The six lines lines[from + 1 .. from + 6] are the block of the game,
\* computed from the game and the response its request got alone.
IsBlockOf(lines, from, game, response) ==
    LET pm == get_polymarket_probs(game.home_team, game.away_team, response)
        model == model_probability(game.home_team_id, game.away_team_id)
        edge == model.home - pm.home
    IN  /\ lines[from + 1] = Line("head", MarkerOf(edge), game.home_team,
                                  game.away_team, 0, 0)
        /\ lines[from + 2] = Line("market", "", << >>, << >>,
                                  Pct1(pm.home), Pct1(pm.away))
        /\ lines[from + 3] = Line("model", "", << >>, << >>,
                                  Pct1(model.home), Pct1(model.away))
        /\ lines[from + 4] = Line("edge", LabelOf(edge), << >>, << >>,
                                  Pct1(edge), 0)
        /\ lines[from + 5] = Line("reason", "", game.home_team, game.away_team,
                                  NetRating(game.home_team_id),
                                  NetRating(game.away_team_id))
        /\ lines[from + 6].kind = "blank"

\* C9: build_report emits a header of three lines (title, date, blank) and
\* then one block of six lines per game (head with the marker of the label,
\* market, model, edge, reason, blank), in the order of the games; the i-th
\* block is computed from the i-th game alone.  While the loop runs the
\* report holds the blocks of the games done so far, and the report that
\* build_report returns holds one block for every game.
C9_ReportShape ==
    build_calls > 0 =>
        /\ Len(report) = 3 + 6 * Len(fetched)
        /\ report[1].kind = "title"
        /\ report[2].kind = "date"
        /\ report[3].kind = "blank"
        /\ Len(fetched) = gi - 1
        /\ \A i \in 1..Len(fetched) :
              IsBlockOf(report, 3 + 6 * (i - 1), games[i], fetched[i])
        /\ message.kind = "report"
              => message.lines = report /\ Len(fetched) = Len(games)

\* A report of two different games, the second one's request failing, was
\* returned and handed over.
C9_Witness ==
    /\ pc = "done"
    /\ Len(games) = 2
    /\ games[1] # games[2]
    /\ Len(fetched) = 2
    /\ fetched[1] # fetched[2]
    /\ fetched[2] = FetchFailure
    /\ sent[1].message.kind = "report"
    /\ Len(sent[1].message.lines) = 15
    /\ sent[1].message.lines[4] # sent[1].message.lines[10]

\* The path a run takes is fixed by its games: no games, a game without
\* one of its keys (build_report raises), or a report.
ExpectedKind ==
    IF games = << >> THEN "nogames"
    ELSE IF \E i \in 1..Len(games) : missing_key(games[i]) # "" THEN "error"
    ELSE "report"

\* C10: every run of main ends, no exception leaves it, and it called
\* send_telegram_message exactly once: with the "no games" message, the
\* report, or the bot-error message when build_report raised; the
\* delivery's failure is the value False of that one call.
C10_OneDelivery ==
    <>[](/\ pc = "done"
         /\ ~raised
         /\ Len(sent) = 1
         /\ sent[1].message.kind = ExpectedKind
         /\ sent[1].result \in BOOLEAN)

\* A run whose build_report raised handed over the bot-error message, and
\* the delivery failed.
C10_Witness ==
    /\ pc = "done"
    /\ Len(sent) = 1
    /\ sent[1].message.kind = "error"
    /\ sent[1].message.key = "home_team_id"
    /\ sent[1].result = FALSE
    /\ ~raised

=============================================================================
